---- MODULE Spec2Model ----
(***************************************************************************)
(* ACI Contract Visualizer (contract_parser.py): the transport client      *)
(* (ACISession), the graph traversal (ACIAnalyzer), the batch report       *)
(* (ReportGenerator), the interactive session (InteractiveMode) and the     *)
(* main loop.                                                              *)
(*                                                                         *)
(* SpecAnalyzer applies each operation of the Analyzer to every answer of  *)
(* the controller within the bounds; Spec is the program, from the main    *)
(* menu on, with the controller's answers drawn at every fetch.            *)
(*                                                                         *)
(* Strings that the code only copies are TLA+ strings.  Strings the code   *)
(* inspects are modelled by their structure:                               *)
(*   - a distinguished name (dn) is the sequence of its "/"-separated      *)
(*     segments, each segment [rn, name] standing for "<rn>-<name>"        *)
(*     ("uni" has no name); "/out-" occurs in the dn exactly when a        *)
(*     segment other than the first has rn = "out" (object names hold no   *)
(*     "/", and "l2out-" does not contain "/out-");                         *)
(*   - a subnet scope is the sequence of its ","-separated flags;          *)
(*     "export-rtctrl" holds no ",", so it occurs in the scope exactly     *)
(*     when it occurs in one flag, and no other APIC flag contains it;     *)
(*   - names that are sorted are compared by their code points.            *)
(***************************************************************************)
EXTENDS Integers, Sequences, FiniteSets, TLC

VARIABLES
    pc,        \* position of the program (main loop, report, interactive session)
    op,        \* the Analyzer operation that ran last in the running function
    req,       \* what the controller answered to that operation
    ret,       \* what the operation returned: [raised, value, wire, calls]
    session,   \* ACISession of main: [posts, cookies]
    mode,      \* main: mode
    input,     \* the line the operator typed last
    tenants,   \* generate_complete_report / InteractiveMode.run: tenants
    tenant,    \* the tenant of the section being written / the tenant selected
    contracts, \* the contracts still to write (sorted) / the contracts fetched
    contract,  \* InteractiveMode.run: contract
    todo,      \* generate_complete_report: the tenants the loop has not reached
    stats,     \* generate_complete_report: stats
    written,   \* the contracts written to the report body, in order
    skipped,   \* the contracts resolved for the report and left out of the body
    sections,  \* the number of tenant sections written
    pass1,     \* the contract lists the loop of the report fetched, per tenant
    summary    \* the figures of the summary, once written

analyzerVars == <<op, req, ret>>
uiVars == <<tenants, tenant, contracts, contract>>
reportVars == <<todo, stats, written, skipped, sections, pass1, summary>>
vars == <<pc, session, mode, input, analyzerVars, uiVars, reportVars>>

(***************************************************************************)
(* Bounds of the model.                                                    *)
(***************************************************************************)
MaxTenants == 3      \* longest raw tenant list the controller returns
MaxRels == 2         \* longest relation list of a contract
MaxSubnets == 2      \* longest subnet list of an external EPG
MaxContracts == 2    \* longest contract list of a tenant

(***************************************************************************)
(* Python values.                                                          *)
(***************************************************************************)
\* A parsed JSON envelope (a dict), or None.  keys: the keys of the dict.
None == [isNone |-> TRUE, keys |-> {}, imdata |-> <<>>]
Dict(keys, imdata) == [isNone |-> FALSE, keys |-> keys, imdata |-> imdata]

\* bool(data): None and the empty dict are falsy.
Truthy(data) == ~data.isNone /\ data.keys # {}

\* data.get("imdata", [])
ImdataOrEmpty(data) == IF "imdata" \in data.keys THEN data.imdata ELSE <<>>

\* not data or not data.get("imdata")
NoImdata(data) == ~Truthy(data) \/ ImdataOrEmpty(data) = <<>>

\* attrs.get(key, default)
AttrGet(attrs, key, default) == IF key \in DOMAIN attrs THEN attrs[key] ELSE default

\* A managed object of the envelope: {"<class>": {"attributes": {...}}}
MO(class, attributes) == [class |-> class, attributes |-> attributes]

Seg(rn, name) == [rn |-> rn, name |-> name]

\* "/out-" in epg_dn
HasExternalMarker(dn) == \E i \in 2..Len(dn) : dn[i].rn = "out"

\* "export-rtctrl" in scope
HasExportFlag(scope) == \E i \in 1..Len(scope) : scope[i] = "export-rtctrl"

(***************************************************************************)
(* Ordering of names: Python compares str by code point.                   *)
(***************************************************************************)
CodePoints(s) ==
    CASE s = "Prod"   -> <<80, 114, 111, 100>>
      [] s = "Prod2"  -> <<80, 114, 111, 100, 50>>
      [] s = "dev"    -> <<100, 101, 118>>
      [] s = "common" -> <<99, 111, 109, 109, 111, 110>>
      [] s = "infra"  -> <<105, 110, 102, 114, 97>>
      [] s = "mgmt"   -> <<109, 103, 109, 116>>
      [] s = "Web"    -> <<87, 101, 98>>
      [] s = "db"     -> <<100, 98>>
      [] s = "app"    -> <<97, 112, 112>>

RECURSIVE SeqLess(_, _)
SeqLess(a, b) ==
    IF b = <<>> THEN FALSE
    ELSE IF a = <<>> THEN TRUE
    ELSE IF Head(a) # Head(b) THEN Head(a) < Head(b)
    ELSE SeqLess(Tail(a), Tail(b))

\* a < b on str
StrLess(a, b) == SeqLess(CodePoints(a), CodePoints(b))

\* sorted(items, key=lambda t: t["name"]): stable, ascending.
RECURSIVE InsertByName(_, _)
InsertByName(x, sorted) ==
    IF sorted = <<>> THEN <<x>>
    ELSE IF StrLess(x.name, Head(sorted).name) THEN <<x>> \o sorted
    ELSE <<Head(sorted)>> \o InsertByName(x, Tail(sorted))

RECURSIVE SortLoop(_, _)
SortLoop(items, acc) ==
    IF items = <<>> THEN acc
    ELSE SortLoop(Tail(items), InsertByName(Head(items), acc))

SortedByName_NoSort(items) == items

SortedByName(items) == SortLoop(items, <<>>)

(***************************************************************************)
(* Configuration.                                                          *)
(***************************************************************************)
EXCLUDED_TENANTS == {"mgmt", "infra", "common"}

(***************************************************************************)
(* ACISession                                                              *)
(***************************************************************************)
\* What the controller (or the network) does with one HTTP request.
Failed(status) == [exc |-> FALSE, status |-> status, body |-> None]
Exception == [exc |-> TRUE, status |-> 0, body |-> None]
Ok(body) == [exc |-> FALSE, status |-> 200, body |-> body]

Url(dn, q) == [dn |-> dn, q |-> q]

\* ACISession.get with a retry of a failed request (not what the code does).
SessionGet_Retry(url, outcome) ==
    IF ~outcome.exc /\ outcome.status = 200
    THEN [data |-> outcome.body, wire |-> <<url>>]
    ELSE [data |-> None, wire |-> <<url, url>>]

\* ACISession.get: one request on the wire; its JSON on status 200, None on
\* any other status and on any exception.
SessionGet(url, outcome) ==
    [data |-> IF ~outcome.exc /\ outcome.status = 200 THEN outcome.body ELSE None,
     wire |-> <<url>>]

\* ACISession.login: one POST of the credentials; True on status 200.
SessionLogin(outcome) ==
    [ok |-> ~outcome.exc /\ outcome.status = 200, posts |-> 1]

(***************************************************************************)
(* ACIAnalyzer.  Every operation returns [raised, value, wire, calls]:     *)
(* raised is TRUE when an exception leaves the operation (value is then    *)
(* meaningless), wire is the sequence of requests put on the wire and      *)
(* calls the number of calls of ACISession.get.                            *)
(***************************************************************************)
\* _get_tenant_vrfs
GetTenantVrfs(tenant_dn, outcome) ==
    LET r == SessionGet(Url(tenant_dn, "fvCtx"), outcome)
        imdata == ImdataOrEmpty(r.data)
    IN  [raised |-> FALSE,
         value |-> IF ~Truthy(r.data) THEN <<>>
                   ELSE [i \in 1..Len(imdata) |->
                            [name |-> imdata[i].attributes.name,
                             dn |-> imdata[i].attributes.dn]],
         wire |-> r.wire,
         calls |-> 1]

\* the loop of get_tenants; vrfOut[dn] is the controller's answer to the VRF
\* fetch of tenant dn.
RECURSIVE TenantLoop(_, _, _)
TenantLoop(imdata, vrfOut, acc) ==
    IF imdata = <<>> THEN acc
    ELSE LET item == Head(imdata)
             tenant_name == item.attributes.name
         IN  IF tenant_name \notin EXCLUDED_TENANTS
             THEN LET tenant_dn == item.attributes.dn
                      vrfs == GetTenantVrfs(tenant_dn, vrfOut[tenant_dn])
                  IN  TenantLoop(Tail(imdata), vrfOut,
                                 [raised |-> FALSE,
                                  value |-> Append(acc.value,
                                                   [name |-> tenant_name,
                                                    dn |-> tenant_dn,
                                                    vrfs |-> vrfs.value]),
                                  wire |-> acc.wire \o vrfs.wire,
                                  calls |-> acc.calls + vrfs.calls])
             ELSE TenantLoop(Tail(imdata), vrfOut, acc)

\* get_tenants
GetTenants(tOut, vrfOut) ==
    LET r == SessionGet(Url(<<>>, "class/fvTenant"), tOut)
        start == [raised |-> FALSE, value |-> <<>>, wire |-> r.wire, calls |-> 1]
    IN  IF ~Truthy(r.data) THEN start
        ELSE LET l == TenantLoop(ImdataOrEmpty(r.data), vrfOut, start)
             IN  [l EXCEPT !.value = SortedByName(l.value)]

\* get_contracts
GetContracts(tenant_dn, outcome) ==
    LET r == SessionGet(Url(tenant_dn, "vzBrCP"), outcome)
        imdata == ImdataOrEmpty(r.data)
    IN  [raised |-> FALSE,
         value |-> IF ~Truthy(r.data) THEN <<>>
                   ELSE [i \in 1..Len(imdata) |->
                            [name |-> imdata[i].attributes.name,
                             dn |-> imdata[i].attributes.dn]],
         wire |-> r.wire,
         calls |-> 1]

\* _get_external_subnets with the description read from "descr".
GetExternalSubnets_Descr(ext_epg_dn, outcome) ==
    LET r == SessionGet(Url(ext_epg_dn, "l3extSubnet"), outcome)
        imdata == ImdataOrEmpty(r.data)
    IN  [raised |-> FALSE,
         value |-> IF NoImdata(r.data) THEN <<>>
                   ELSE [i \in 1..Len(imdata) |->
                            LET subnet_attrs == imdata[i].attributes
                                scope == AttrGet(subnet_attrs, "scope", <<>>)
                            IN  [ip |-> subnet_attrs.ip,
                                 description |-> AttrGet(subnet_attrs, "descr", ""),
                                 type |-> IF HasExportFlag(scope) THEN "exp" ELSE "ext"]],
         wire |-> r.wire,
         calls |-> 1]

\* _get_external_subnets with the scope test inverted.
GetExternalSubnets_Swapped(ext_epg_dn, outcome) ==
    LET r == SessionGet(Url(ext_epg_dn, "l3extSubnet"), outcome)
        imdata == ImdataOrEmpty(r.data)
    IN  [raised |-> FALSE,
         value |-> IF NoImdata(r.data) THEN <<>>
                   ELSE [i \in 1..Len(imdata) |->
                            LET subnet_attrs == imdata[i].attributes
                                scope == AttrGet(subnet_attrs, "scope", <<>>)
                            IN  [ip |-> subnet_attrs.ip,
                                 description |-> AttrGet(subnet_attrs, "name", ""),
                                 type |-> IF HasExportFlag(scope) THEN "ext" ELSE "exp"]],
         wire |-> r.wire,
         calls |-> 1]

\* _get_external_subnets
GetExternalSubnets(ext_epg_dn, outcome) ==
    LET r == SessionGet(Url(ext_epg_dn, "l3extSubnet"), outcome)
        imdata == ImdataOrEmpty(r.data)
    IN  [raised |-> FALSE,
         value |-> IF NoImdata(r.data) THEN <<>>
                   ELSE [i \in 1..Len(imdata) |->
                            LET subnet_attrs == imdata[i].attributes
                                scope == AttrGet(subnet_attrs, "scope", <<>>)
                            IN  [ip |-> subnet_attrs.ip,
                                 description |-> AttrGet(subnet_attrs, "name", ""),
                                 type |-> IF HasExportFlag(scope) THEN "exp" ELSE "ext"]],
         wire |-> r.wire,
         calls |-> 1]

\* _get_internal_subnets reading the last Bridge Domain of the lookup.
GetInternalSubnets_LastBd(epg_dn, bdOut, subOut) ==
    LET r == SessionGet(Url(epg_dn, "fvRsBd"), bdOut)
    IN  IF NoImdata(r.data)
        THEN [raised |-> FALSE, value |-> <<>>, wire |-> r.wire, calls |-> 1]
        ELSE LET bd_dn == r.data.imdata[Len(r.data.imdata)].attributes.tDn
                 s == SessionGet(Url(bd_dn, "fvSubnet"), subOut[bd_dn])
                 imdata == ImdataOrEmpty(s.data)
             IN  [raised |-> FALSE,
                  value |-> IF NoImdata(s.data) THEN <<>>
                            ELSE [i \in 1..Len(imdata) |->
                                     [ip |-> imdata[i].attributes.ip,
                                      description |->
                                          AttrGet(imdata[i].attributes, "descr", ""),
                                      type |-> "internal"]],
                  wire |-> r.wire \o s.wire,
                  calls |-> 2]

\* _get_internal_subnets; subOut[dn] is the controller's answer to the subnet
\* fetch of Bridge Domain dn.
GetInternalSubnets(epg_dn, bdOut, subOut) ==
    LET r == SessionGet(Url(epg_dn, "fvRsBd"), bdOut)
    IN  IF NoImdata(r.data)
        THEN [raised |-> FALSE, value |-> <<>>, wire |-> r.wire, calls |-> 1]
        ELSE LET bd_dn == r.data.imdata[1].attributes.tDn
                 s == SessionGet(Url(bd_dn, "fvSubnet"), subOut[bd_dn])
                 imdata == ImdataOrEmpty(s.data)
             IN  [raised |-> FALSE,
                  value |-> IF NoImdata(s.data) THEN <<>>
                            ELSE [i \in 1..Len(imdata) |->
                                     [ip |-> imdata[i].attributes.ip,
                                      description |->
                                          AttrGet(imdata[i].attributes, "descr", ""),
                                      type |-> "internal"]],
                  wire |-> r.wire \o s.wire,
                  calls |-> 2]

\* The value of _get_epg_info when it returns None.
NoEpg == [isNone |-> TRUE, name |-> "", type |-> "", dn |-> <<>>, subnets |-> <<>>]

\* _get_external_epg_info giving up on an EPG whose subnet fetch brings nothing.
GetExternalEpgInfo_DropNoSubnets(epg_dn, o) ==
    LET r == SessionGet(Url(epg_dn, ""), o.obj)
    IN  IF NoImdata(r.data)
        THEN [raised |-> FALSE, value |-> NoEpg, wire |-> r.wire, calls |-> 1]
        ELSE IF r.data.imdata[1].class # "l3extInstP"
        THEN [raised |-> TRUE, value |-> NoEpg, wire |-> r.wire, calls |-> 1]
        ELSE LET epg_data == r.data.imdata[1].attributes
                 subnets == GetExternalSubnets(epg_dn, o.sub[epg_dn])
             IN  [raised |-> FALSE,
                  value |-> IF subnets.value = <<>> THEN NoEpg
                            ELSE [isNone |-> FALSE,
                                  name |-> epg_data.name,
                                  type |-> "external",
                                  dn |-> epg_dn,
                                  subnets |-> subnets.value],
                  wire |-> r.wire \o subnets.wire,
                  calls |-> 1 + subnets.calls]

\* _get_external_epg_info; o = [obj, bd, sub]: the controller's answers to the
\* object fetch, the Bridge-Domain lookup and the subnet fetches.
\* data["imdata"][0]["l3extInstP"] is a KeyError on an object of another class.
GetExternalEpgInfo(epg_dn, o) ==
    LET r == SessionGet(Url(epg_dn, ""), o.obj)
    IN  IF NoImdata(r.data)
        THEN [raised |-> FALSE, value |-> NoEpg, wire |-> r.wire, calls |-> 1]
        ELSE IF r.data.imdata[1].class # "l3extInstP"
        THEN [raised |-> TRUE, value |-> NoEpg, wire |-> r.wire, calls |-> 1]
        ELSE LET epg_data == r.data.imdata[1].attributes
                 subnets == GetExternalSubnets(epg_dn, o.sub[epg_dn])
             IN  [raised |-> FALSE,
                  value |-> [isNone |-> FALSE,
                             name |-> epg_data.name,
                             type |-> "external",
                             dn |-> epg_dn,
                             subnets |-> subnets.value],
                  wire |-> r.wire \o subnets.wire,
                  calls |-> 1 + subnets.calls]

\* _get_internal_epg_info
\* data["imdata"][0]["fvAEPg"] is a KeyError on an object of another class.
GetInternalEpgInfo(epg_dn, o) ==
    LET r == SessionGet(Url(epg_dn, ""), o.obj)
    IN  IF NoImdata(r.data)
        THEN [raised |-> FALSE, value |-> NoEpg, wire |-> r.wire, calls |-> 1]
        ELSE IF r.data.imdata[1].class # "fvAEPg"
        THEN [raised |-> TRUE, value |-> NoEpg, wire |-> r.wire, calls |-> 1]
        ELSE LET epg_data == r.data.imdata[1].attributes
                 subnets == GetInternalSubnets(epg_dn, o.bd, o.sub)
             IN  [raised |-> FALSE,
                  value |-> [isNone |-> FALSE,
                             name |-> epg_data.name,
                             type |-> "internal",
                             dn |-> epg_dn,
                             subnets |-> subnets.value],
                  wire |-> r.wire \o subnets.wire,
                  calls |-> 1 + subnets.calls]

\* _get_epg_info
GetEpgInfo(epg_dn, o) ==
    IF HasExternalMarker(epg_dn)
    THEN GetExternalEpgInfo(epg_dn, o)
    ELSE GetInternalEpgInfo(epg_dn, o)

\* the loop of get_contract_relationships; oracle[dn] is what the controller
\* answers while target dn is resolved.  An exception of _get_epg_info leaves
\* the loop and the operation.
RECURSIVE RelationLoop(_, _, _)
RelationLoop(imdata, oracle, acc) ==
    IF imdata = <<>> \/ acc.raised THEN acc
    ELSE LET item == Head(imdata)
         IN  IF item.class \in {"vzRtProv", "vzRtCons"}
             THEN LET target_dn == item.attributes.tDn
                      epg_info == GetEpgInfo(target_dn, oracle[target_dn])
                      keep == ~epg_info.raised /\ ~epg_info.value.isNone
                      isProv == item.class = "vzRtProv"
                  IN  RelationLoop(Tail(imdata), oracle,
                        [raised |-> epg_info.raised,
                         value |->
                           [providers |->
                              IF keep /\ isProv
                              THEN Append(acc.value.providers, epg_info.value)
                              ELSE acc.value.providers,
                            consumers |->
                              IF keep /\ ~isProv
                              THEN Append(acc.value.consumers, epg_info.value)
                              ELSE acc.value.consumers],
                         wire |-> acc.wire \o epg_info.wire,
                         calls |-> acc.calls + epg_info.calls])
             ELSE RelationLoop(Tail(imdata), oracle, acc)

\* get_contract_relationships
GetContractRelationships(contract_dn, relOut, oracle) ==
    LET r == SessionGet(Url(contract_dn, "vzRtProv,vzRtCons"), relOut)
        start == [raised |-> FALSE,
                  value |-> [providers |-> <<>>, consumers |-> <<>>],
                  wire |-> r.wire,
                  calls |-> 1]
    IN  IF ~Truthy(r.data) THEN start
        ELSE RelationLoop(ImdataOrEmpty(r.data), oracle, start)

(***************************************************************************)
(* The controller: what the APIC can answer.                               *)
(***************************************************************************)
SeqsUpTo(S, n) == UNION {[1..k -> S] : k \in 0..n}

\* The functions f on D with f[d] \in S[d].
RECURSIVE FunsOver(_, _)
FunsOver(D, S) ==
    IF D = {} THEN {<<>>}
    ELSE LET d == CHOOSE x \in D : TRUE
         IN  {f @@ (d :> v) : f \in FunsOver(D \ {d}, S), v \in S[d]}

\* A request that brings no data: a network error or timeout, an error status,
\* an empty JSON object, an envelope without imdata, an empty imdata.
NoDataOutcomes ==
    {Exception, Failed(403),
     Ok(Dict({}, <<>>)),
     Ok(Dict({"totalCount"}, <<>>)),
     Ok(Dict({"imdata", "totalCount"}, <<>>))}

\* The answers that carry one of the lists.
DataOutcomes(lists) == {Ok(Dict({"imdata", "totalCount"}, l)) : l \in lists \ {<<>>}}

Uni == Seg("uni", "")
TenantNames == {"common", "infra", "mgmt", "Prod", "dev"}
TenantDn(name) == <<Uni, Seg("tn", name)>>
TenantMO(name) == MO("fvTenant", [name |-> name, dn |-> TenantDn(name)])
VrfMO(tenant_dn, name) ==
    MO("fvCtx", [name |-> name, dn |-> Append(tenant_dn, Seg("ctx", name))])
ContractNames == {"Web", "db", "app"}
ContractDn(tenant_dn, name) == Append(tenant_dn, Seg("brc", name))
ContractMO(tenant_dn, name) ==
    MO("vzBrCP", [name |-> name, dn |-> ContractDn(tenant_dn, name)])

TenantListOutcomes ==
    NoDataOutcomes
    \cup DataOutcomes({[i \in 1..Len(l) |-> TenantMO(l[i])] :
                          l \in SeqsUpTo(TenantNames, MaxTenants)})

VrfOutcomes(tenant_dn) ==
    NoDataOutcomes \cup DataOutcomes({<<VrfMO(tenant_dn, "vrf1")>>})

ContractListOutcomes(tenant_dn) ==
    NoDataOutcomes
    \cup DataOutcomes({[i \in 1..Len(l) |-> ContractMO(tenant_dn, l[i])] :
                          l \in SeqsUpTo(ContractNames, MaxContracts)})

\* The targets of the relations: an application EPG, an external EPG of an
\* L3Out and an external EPG of an L2Out (its path holds "/l2out-").
EpgWeb == <<Uni, Seg("tn", "Prod"), Seg("ap", "App"), Seg("epg", "Web")>>
ExtPartner == <<Uni, Seg("tn", "Prod"), Seg("out", "L3"), Seg("instP", "Partner")>>
L2Legacy == <<Uni, Seg("tn", "Prod"), Seg("l2out", "L2"), Seg("instP", "Legacy")>>
TargetDns == {EpgWeb, ExtPartner, L2Legacy}
Bd1 == <<Uni, Seg("tn", "Prod"), Seg("BD", "bd1")>>
Bd2 == <<Uni, Seg("tn", "Prod"), Seg("BD", "bd2")>>

\* The class of the object the controller holds at a target path.
ClassAt(dn) ==
    IF dn = EpgWeb THEN "fvAEPg"
    ELSE IF dn = ExtPartner THEN "l3extInstP"
    ELSE "l2extInstP"

ObjectMO(dn, class) == MO(class, [name |-> dn[Len(dn)].name, dn |-> dn])

RelationMO(class, tDn) == MO(class, [tDn |-> tDn])
RelationItems == {RelationMO(c, d) : c \in {"vzRtProv", "vzRtCons"}, d \in TargetDns}
RelationOutcomes ==
    NoDataOutcomes \cup DataOutcomes(SeqsUpTo(RelationItems, MaxRels))

\* fvSubnet children of the Bridge Domains.
Subnet1 == MO("fvSubnet", [ip |-> "10.0.0.1/24", descr |-> "servers", name |-> "web-net"])
Subnet2 == MO("fvSubnet", [ip |-> "10.0.1.1/24", name |-> "db-net"])
Subnet3 == MO("fvSubnet", [ip |-> "10.9.9.1/24", descr |-> "spare"])

\* l3extSubnet children of the external EPG.
ExtSubnets ==
    {MO("l3extSubnet", [ip |-> "20.0.0.0/24", scope |-> <<"export-rtctrl">>,
                        name |-> "partner", descr |-> "leased line"]),
     MO("l3extSubnet", [ip |-> "0.0.0.0/0", scope |-> <<"import-security">>,
                        descr |-> "default"]),
     MO("l3extSubnet", [ip |-> "30.0.0.0/8",
                        scope |-> <<"import-security", "export-rtctrl">>,
                        name |-> "both"]),
     MO("l3extSubnet", [ip |-> "40.0.0.0/8", name |-> "bare"])}

\* Every answer to the fetches of one resolution of target dn.
ObjOutcomes(dn) ==
    NoDataOutcomes
    \cup DataOutcomes({<<ObjectMO(dn, c)>> : c \in {"fvAEPg", "l3extInstP", "l2extInstP"}})
BdOutcomes ==
    NoDataOutcomes
    \cup DataOutcomes({<<RelationMO("fvRsBd", Bd1)>>,
                       <<RelationMO("fvRsBd", Bd2), RelationMO("fvRsBd", Bd1)>>})
SubnetOutcomes ==
    Bd1 :> (NoDataOutcomes \cup DataOutcomes({<<Subnet1>>, <<Subnet1, Subnet2>>}))
    @@ Bd2 :> ({Failed(403)} \cup DataOutcomes({<<Subnet3>>}))
    @@ ExtPartner :> (NoDataOutcomes
                      \cup DataOutcomes(SeqsUpTo(ExtSubnets, MaxSubnets)))

EpgOracles(dn) ==
    {[obj |-> obj, bd |-> bd, sub |-> sub] :
        obj \in ObjOutcomes(dn),
        bd \in IF HasExternalMarker(dn) THEN {Failed(403)} ELSE BdOutcomes,
        sub \in FunsOver(IF HasExternalMarker(dn) THEN {dn} ELSE {Bd1, Bd2},
                         SubnetOutcomes)}

\* The answers of a controller that holds at dn the object ClassAt(dn) names,
\* or has lost it, with or without one subnet.
LeanEpgOracles(dn) ==
    {[obj |-> obj, bd |-> Ok(Dict({"imdata", "totalCount"}, <<RelationMO("fvRsBd", Bd1)>>)),
      sub |-> sub] :
        obj \in {Failed(403), Ok(Dict({"imdata", "totalCount"}, <<>>))}
                \cup DataOutcomes({<<ObjectMO(dn, ClassAt(dn))>>}),
        sub \in FunsOver(IF HasExternalMarker(dn) THEN {dn} ELSE {Bd1},
                         Bd1 :> ({Failed(403)} \cup DataOutcomes({<<Subnet1>>}))
                         @@ ExtPartner :> ({Exception}
                              \cup DataOutcomes({<<x>> : x \in ExtSubnets}))) }

DnsOf(outcome) ==
    {outcome.body.imdata[i].attributes.dn : i \in 1..Len(outcome.body.imdata)}

TargetsOf(outcome) ==
    {outcome.body.imdata[i].attributes.tDn : i \in 1..Len(outcome.body.imdata)}

(***************************************************************************)
(* The Analyzer's operations, each applied to every answer of the          *)
(* controller.                                                             *)
(***************************************************************************)
NoResult == [raised |-> FALSE, value |-> <<>>, wire |-> <<>>, calls |-> 0]
NoReport == [contracts |-> 0, providers |-> 0, consumers |-> 0]
NoItem == [name |-> "", dn |-> <<>>]
NoSummary == [written |-> FALSE, tenants |-> 0, contracts |-> 0,
              providers |-> 0, consumers |-> 0]

\* A call of the Analyzer and the controller's answers to it.
InitAnalyzer ==
    /\ pc = "call"
    /\ \/ /\ op = "get_tenants"
          /\ \E tOut \in TenantListOutcomes :
               \E vrfOut \in FunsOver({TenantDn(n) : n \in TenantNames \ EXCLUDED_TENANTS},
                                      [d \in {TenantDn(n) : n \in TenantNames} |->
                                          VrfOutcomes(d)]) :
                 req = [t |-> tOut, vrf |-> vrfOut]
       \/ /\ op = "get_contracts"
          /\ \E name \in TenantNames \ EXCLUDED_TENANTS :
               \E cOut \in ContractListOutcomes(TenantDn(name)) :
                 req = [dn |-> TenantDn(name), c |-> cOut]
       \/ /\ op = "get_epg_info"
          /\ \E dn \in TargetDns :
               \E o \in EpgOracles(dn) :
                 req = [dn |-> dn, o |-> o]
       \/ /\ op = "get_contract_relationships"
          /\ \E relOut \in RelationOutcomes :
               \E oracle \in FunsOver(TargetsOf(relOut),
                                      [d \in TargetDns |-> LeanEpgOracles(d)]) :
                 req = [dn |-> ContractDn(TenantDn("Prod"), "Web"),
                        rel |-> relOut, oracle |-> oracle]
    /\ ret = NoResult
    /\ session = [posts |-> 1, cookies |-> TRUE]
    /\ mode = 0
    /\ input = ""
    /\ tenants = <<>>
    /\ tenant = NoItem
    /\ contracts = <<>>
    /\ contract = NoItem
    /\ todo = <<>>
    /\ stats = NoReport
    /\ written = <<>>
    /\ skipped = <<>>
    /\ sections = 0
    /\ pass1 = <<>>
    /\ summary = NoSummary

CallGetTenants ==
    /\ pc = "call" /\ op = "get_tenants"
    /\ ret' = GetTenants(req.t, req.vrf)
    /\ pc' = "returned"
    /\ UNCHANGED <<op, req, session, mode, input, uiVars, reportVars>>

CallGetContracts ==
    /\ pc = "call" /\ op = "get_contracts"
    /\ ret' = GetContracts(req.dn, req.c)
    /\ pc' = "returned"
    /\ UNCHANGED <<op, req, session, mode, input, uiVars, reportVars>>

CallGetEpgInfo ==
    /\ pc = "call" /\ op = "get_epg_info"
    /\ ret' = GetEpgInfo(req.dn, req.o)
    /\ pc' = "returned"
    /\ UNCHANGED <<op, req, session, mode, input, uiVars, reportVars>>

CallGetContractRelationships ==
    /\ pc = "call" /\ op = "get_contract_relationships"
    /\ ret' = GetContractRelationships(req.dn, req.rel, req.oracle)
    /\ pc' = "returned"
    /\ UNCHANGED <<op, req, session, mode, input, uiVars, reportVars>>

NextAnalyzer ==
    \/ CallGetTenants
    \/ CallGetContracts
    \/ CallGetEpgInfo
    \/ CallGetContractRelationships

SpecAnalyzer == InitAnalyzer /\ [][NextAnalyzer]_vars

(***************************************************************************)
(* Properties of the Analyzer (checked under SpecAnalyzer).                *)
(***************************************************************************)
Returned(o) == pc = "returned" /\ op = o

\* The request brought no data: it failed, or its envelope has no imdata or
\* an empty one.
IsNoData(outcome) ==
    \/ outcome.exc
    \/ outcome.status # 200
    \/ "imdata" \notin outcome.body.keys
    \/ outcome.body.imdata = <<>>

\* The request brought an object of the class.
BroughtObject(outcome, class) ==
    ~IsNoData(outcome) /\ outcome.body.imdata[1].class = class

Range(f) == {f[i] : i \in DOMAIN f}
NamesOf(items) == [i \in 1..Len(items) |-> items[i].name]
DnsOfEpgs(epgs) == [i \in 1..Len(epgs) |-> epgs[i].dn]
Occurrences(seq, x) == Cardinality({i \in 1..Len(seq) : seq[i] = x})

\* The tenant names of the raw list of the answer to the tenant fetch.
RawTenantNames ==
    IF IsNoData(req.t) THEN <<>>
    ELSE [i \in 1..Len(req.t.body.imdata) |-> req.t.body.imdata[i].attributes.name]

\* C1: whatever raw tenant list the controller returns, get_tenants returns
\* exactly the tenants of that list whose name is not mgmt, infra or common
\* (each as often as the list holds it), sorted ascending by name.
C1_TenantsFilteredAndSorted ==
    (Returned("get_tenants") /\ ~req.t.exc /\ req.t.status = 200) =>
        LET res == ret.value
        IN  /\ ~ret.raised
            /\ \A i, j \in 1..Len(res) : i < j => ~StrLess(res[j].name, res[i].name)
            /\ \A n \in TenantNames :
                  Occurrences(NamesOf(res), n) =
                      IF n \in {"mgmt", "infra", "common"} THEN 0
                      ELSE Occurrences(RawTenantNames, n)
            /\ \A i \in 1..Len(res) : res[i].dn = TenantDn(res[i].name)

\* C1's case: an excluded tenant in the middle of an unsorted raw list.
C1_Witness ==
    /\ Returned("get_tenants")
    /\ RawTenantNames = <<"dev", "infra", "Prod">>
    /\ NamesOf(ret.value) = <<"Prod", "dev">>

\* The targets of the relations of one class whose object fetch brought data,
\* in the order of the relation records.
ExpectedTargets(class) ==
    LET items == SelectSeq(req.rel.body.imdata,
                           LAMBDA it : /\ it.class = class
                                       /\ ~IsNoData(req.oracle[it.attributes.tDn].obj))
    IN  [i \in 1..Len(items) |-> items[i].attributes.tDn]

\* C2: for every contract, get_contract_relationships returns as providers
\* exactly the vzRtProv targets whose object fetch brought data and as consumers
\* exactly the vzRtCons targets whose object fetch brought data, each in the
\* order of the relation records.
C2_RelationshipsExact ==
    (Returned("get_contract_relationships") /\ ~IsNoData(req.rel)) =>
        /\ ~ret.raised
        /\ DnsOfEpgs(ret.value.providers) = ExpectedTargets("vzRtProv")
        /\ DnsOfEpgs(ret.value.consumers) = ExpectedTargets("vzRtCons")

\* What get_contract_relationships does return whenever no exception leaves it
\* (C2 without the case of C3).
RelationshipsExactWhenReturned ==
    (Returned("get_contract_relationships") /\ ~IsNoData(req.rel) /\ ~ret.raised) =>
        /\ DnsOfEpgs(ret.value.providers) = ExpectedTargets("vzRtProv")
        /\ DnsOfEpgs(ret.value.consumers) = ExpectedTargets("vzRtCons")

\* C3: _get_epg_info never raises, whatever the controller answers to the
\* object fetch, and so get_contract_relationships never raises either.
C3_ResolveNeverRaises ==
    (Returned("get_epg_info") \/ Returned("get_contract_relationships")) => ~ret.raised

\* The EPGs the last operation resolved, each with the controller's answers to
\* its resolution.
Resolved ==
    IF Returned("get_epg_info")
    THEN IF ret.raised \/ ret.value.isNone THEN {}
         ELSE {[epg |-> ret.value, o |-> req.o]}
    ELSE IF Returned("get_contract_relationships")
    THEN {[epg |-> e, o |-> req.oracle[e.dn]] :
             e \in Range(ret.value.providers) \cup Range(ret.value.consumers)}
    ELSE {}

\* The tags of the subnets of the external EPGs, as C4 states them.
ExternalSubnetsTagged ==
    \A r \in Resolved :
        r.epg.type = "external" =>
            LET raw == r.o.sub[r.epg.dn].body.imdata
            IN  /\ Len(r.epg.subnets) = Len(raw)
                /\ \A i \in 1..Len(raw) :
                      LET scope == AttrGet(raw[i].attributes, "scope", <<>>)
                          export == \E k \in 1..Len(scope) : scope[k] = "export-rtctrl"
                      IN  /\ export => r.epg.subnets[i].type = "exp"
                          /\ (scope # <<>> /\ ~export) => r.epg.subnets[i].type = "ext"

\* C4 as stated: the subnets of an external EPG are tagged exported on a scope
\* with export-rtctrl and external on any other non-empty scope, and a subnet
\* of an internal EPG carries no tag at all.
C4_InternalSubnetsUntagged ==
    /\ ExternalSubnetsTagged
    /\ \A r \in Resolved :
          r.epg.type = "internal" =>
              \A i \in 1..Len(r.epg.subnets) : "type" \notin DOMAIN r.epg.subnets[i]

\* C4 amended: the subnets of an external EPG are tagged as C4 states, and a
\* subnet of an internal EPG carries the tag "internal", never exported or
\* external.
C4_SubnetTags ==
    /\ ExternalSubnetsTagged
    /\ \A r \in Resolved :
          r.epg.type = "internal" =>
              \A i \in 1..Len(r.epg.subnets) : r.epg.subnets[i].type = "internal"

\* C4's case: one contract with an internal EPG and an external EPG, each with
\* a subnet, the external one exported.
C4_Witness ==
    /\ Returned("get_contract_relationships")
    /\ \E r \in Resolved : r.epg.type = "internal" /\ r.epg.subnets # <<>>
    /\ \E r \in Resolved :
          /\ r.epg.type = "external"
          /\ \E i \in 1..Len(r.epg.subnets) : r.epg.subnets[i].type = "exp"

\* C5: a target path with the external marker whose object fetch brings the
\* external EPG resolves to an EPG of type external; its resolution issues the
\* object fetch and the fetch of the EPG's own l3extSubnet children and no
\* Bridge-Domain lookup; each subnet's description is the subnet's name
\* attribute ("" without one).
C5_ExternalResolution ==
    (Returned("get_epg_info") /\ \E i \in 2..Len(req.dn) : req.dn[i].rn = "out") =>
        /\ BroughtObject(req.o.obj, "l3extInstP") => ~ret.raised /\ ~ret.value.isNone
        /\ (~ret.raised /\ ~ret.value.isNone) =>
              LET raw == req.o.sub[req.dn].body.imdata
              IN  /\ ret.value.type = "external"
                  /\ ret.wire = <<Url(req.dn, ""), Url(req.dn, "l3extSubnet")>>
                  /\ \A k \in 1..Len(ret.wire) : ret.wire[k].q # "fvRsBd"
                  /\ Len(ret.value.subnets) = Len(raw)
                  /\ \A i \in 1..Len(raw) :
                        ret.value.subnets[i].description =
                            AttrGet(raw[i].attributes, "name", "")

\* C5's case: an external EPG with a subnet that has a name and another
\* description.
C5_Witness ==
    /\ Returned("get_epg_info")
    /\ req.dn = ExtPartner
    /\ ~ret.raised /\ ~ret.value.isNone
    /\ \E i \in 1..Len(ret.value.subnets) :
          /\ ret.value.subnets[i].description = "partner"
          /\ req.o.sub[req.dn].body.imdata[i].attributes.descr = "leased line"

\* C6: a target path without the external marker whose object fetch brings the
\* application EPG resolves to an EPG of type internal; its resolution issues
\* exactly one Bridge-Domain lookup and reads subnets from the first Bridge
\* Domain of that lookup only; each subnet's description is the subnet's descr
\* attribute ("" without one).
C6_InternalResolution ==
    (Returned("get_epg_info") /\ ~\E i \in 2..Len(req.dn) : req.dn[i].rn = "out") =>
        /\ BroughtObject(req.o.obj, "fvAEPg") => ~ret.raised /\ ~ret.value.isNone
        /\ (~ret.raised /\ ~ret.value.isNone) =>
              LET lookups == {k \in 1..Len(ret.wire) : ret.wire[k].q = "fvRsBd"}
                  reads == {k \in 1..Len(ret.wire) : ret.wire[k].q = "fvSubnet"}
                  first == req.o.bd.body.imdata[1].attributes.tDn
                  raw == IF IsNoData(req.o.bd) THEN <<>> ELSE req.o.sub[first].body.imdata
              IN  /\ ret.value.type = "internal"
                  /\ Cardinality(lookups) = 1
                  /\ \A k \in lookups : ret.wire[k].dn = req.dn
                  /\ Cardinality(reads) = IF IsNoData(req.o.bd) THEN 0 ELSE 1
                  /\ \A k \in reads : ret.wire[k].dn = first
                  /\ \A k \in 1..Len(ret.wire) : ret.wire[k].q # "l3extSubnet"
                  /\ Len(ret.value.subnets) = Len(raw)
                  /\ \A i \in 1..Len(raw) :
                        ret.value.subnets[i].description =
                            AttrGet(raw[i].attributes, "descr", "")

\* C6's case: the lookup returns two Bridge Domains and the subnets are those
\* of the first.
C6_Witness ==
    /\ Returned("get_epg_info")
    /\ req.dn = EpgWeb
    /\ ~ret.raised /\ ~ret.value.isNone
    /\ Len(req.o.bd.body.imdata) = 2
    /\ ~IsNoData(req.o.sub[Bd1]) /\ ~IsNoData(req.o.sub[Bd2])
    /\ Len(ret.value.subnets) = 1
    /\ ret.value.subnets[1].description = "spare"

\* C7: an operation whose fetch fails or brings an absent or empty imdata
\* returns its empty result and does not raise: no tenants, no contracts, no
\* providers and no consumers, no EPG; a tenant whose VRF fetch brings nothing
\* is listed with no VRFs and an EPG whose Bridge-Domain lookup or subnet fetch
\* brings nothing is resolved with no subnets.
C7_NoDataIsEmpty ==
    /\ (Returned("get_tenants") /\ IsNoData(req.t)) => ~ret.raised /\ ret.value = <<>>
    /\ Returned("get_tenants") =>
          \A i \in 1..Len(RawTenantNames) :
              LET n == RawTenantNames[i]
              IN  (n \notin {"mgmt", "infra", "common"} /\ IsNoData(req.vrf[TenantDn(n)])) =>
                      \E k \in 1..Len(ret.value) :
                          ret.value[k].name = n /\ ret.value[k].vrfs = <<>>
    /\ (Returned("get_contracts") /\ IsNoData(req.c)) => ~ret.raised /\ ret.value = <<>>
    /\ (Returned("get_contract_relationships") /\ IsNoData(req.rel)) =>
          /\ ~ret.raised
          /\ ret.value = [providers |-> <<>>, consumers |-> <<>>]
    /\ (Returned("get_epg_info") /\ IsNoData(req.o.obj)) => ~ret.raised /\ ret.value.isNone
    /\ (Returned("get_epg_info") /\ BroughtObject(req.o.obj, "l3extInstP")
           /\ req.dn = ExtPartner /\ IsNoData(req.o.sub[req.dn])) =>
          ~ret.raised /\ ~ret.value.isNone /\ ret.value.subnets = <<>>
    /\ (Returned("get_epg_info") /\ BroughtObject(req.o.obj, "fvAEPg")
           /\ req.dn = EpgWeb
           /\ (IsNoData(req.o.bd)
               \/ IsNoData(req.o.sub[req.o.bd.body.imdata[1].attributes.tDn]))) =>
          ~ret.raised /\ ~ret.value.isNone /\ ret.value.subnets = <<>>

\* C7's case: the VRF fetch of a listed tenant timed out.
C7_Witness ==
    /\ Returned("get_tenants")
    /\ RawTenantNames = <<"Prod", "dev">>
    /\ req.vrf[TenantDn("Prod")] = Exception
    /\ ~IsNoData(req.vrf[TenantDn("dev")])
    /\ Len(ret.value) = 2
    /\ ret.value[1].vrfs = <<>> /\ ret.value[2].vrfs # <<>>

(***************************************************************************)
(* The program: main, generate_complete_report and InteractiveMode.run.    *)
(* The controller's answers are drawn at every fetch.                      *)
(***************************************************************************)
FABRICS == <<"Simulateur", "DC2-FabricB", "Lab-Fabric">>

\* The lines the operator types.
Lines == {"0", "1", "2", "3", "4", "abc", "oui", "non"}

\* int(input(...).strip()): ValueError on a line that is no number.
IsInt(line) == line \in {"0", "1", "2", "3", "4"}
IntOf(line) ==
    CASE line = "0" -> 0
      [] line = "1" -> 1
      [] line = "2" -> 2
      [] line = "3" -> 3
      [] line = "4" -> 4

\* What the controller answers to the fetches of the program.
LoginOutcomes == {Exception, Failed(401), Ok(Dict({"imdata", "totalCount"}, <<>>))}

MainTenantCalls ==
    {[t |-> Exception, vrf |-> <<>>],
     [t |-> Ok(Dict({"imdata", "totalCount"}, <<TenantMO("Prod")>>)),
      vrf |-> TenantDn("Prod") :> Failed(403)],
     [t |-> Ok(Dict({"imdata", "totalCount"},
                    <<TenantMO("dev"), TenantMO("infra"), TenantMO("Prod")>>)),
      vrf |-> TenantDn("Prod")
                 :> Ok(Dict({"imdata", "totalCount"}, <<VrfMO(TenantDn("Prod"), "vrf1")>>))
              @@ TenantDn("dev") :> Ok(Dict({"imdata", "totalCount"}, <<>>))]}

MainContractOutcomes(tenant_dn) ==
    {Failed(403), Ok(Dict({"imdata", "totalCount"}, <<>>))}
    \cup DataOutcomes({<<ContractMO(tenant_dn, "Web")>>,
                       <<ContractMO(tenant_dn, "db"), ContractMO(tenant_dn, "Web")>>})

Present(dn) ==
    [obj |-> Ok(Dict({"imdata", "totalCount"}, <<ObjectMO(dn, ClassAt(dn))>>)),
     bd |-> Ok(Dict({"imdata", "totalCount"}, <<RelationMO("fvRsBd", Bd1)>>)),
     sub |-> Bd1 :> Ok(Dict({"imdata", "totalCount"}, <<Subnet1>>))
             @@ ExtPartner :> Failed(403)]
Lost(dn) == [Present(dn) EXCEPT !.obj = Ok(Dict({"imdata", "totalCount"}, <<>>))]

MainRelationCalls ==
    {[rel |-> Failed(403), oracle |-> <<>>],
     [rel |-> Ok(Dict({"imdata", "totalCount"}, <<RelationMO("vzRtProv", EpgWeb)>>)),
      oracle |-> EpgWeb :> Present(EpgWeb)],
     [rel |-> Ok(Dict({"imdata", "totalCount"}, <<RelationMO("vzRtProv", EpgWeb)>>)),
      oracle |-> EpgWeb :> Lost(EpgWeb)],
     [rel |-> Ok(Dict({"imdata", "totalCount"},
                      <<RelationMO("vzRtCons", ExtPartner), RelationMO("vzRtProv", EpgWeb),
                        RelationMO("vzRtCons", EpgWeb)>>)),
      oracle |-> EpgWeb :> Present(EpgWeb) @@ ExtPartner :> Present(ExtPartner)],
     [rel |-> Ok(Dict({"imdata", "totalCount"},
                      <<RelationMO("vzRtCons", ExtPartner), RelationMO("vzRtProv", EpgWeb)>>)),
      oracle |-> EpgWeb :> Lost(EpgWeb) @@ ExtPartner :> Present(ExtPartner)],
     [rel |-> Ok(Dict({"imdata", "totalCount"},
                      <<RelationMO("vzRtProv", EpgWeb), RelationMO("vzRtCons", L2Legacy)>>)),
      oracle |-> EpgWeb :> Present(EpgWeb) @@ L2Legacy :> Present(L2Legacy)]}

Init ==
    /\ pc = "menu"
    /\ op = "none"
    /\ req = <<>>
    /\ ret = NoResult
    /\ session = [posts |-> 0, cookies |-> FALSE]
    /\ mode = 0
    /\ input = ""
    /\ tenants = <<>>
    /\ tenant = NoItem
    /\ contracts = <<>>
    /\ contract = NoItem
    /\ todo = <<>>
    /\ stats = NoReport
    /\ written = <<>>
    /\ skipped = <<>>
    /\ sections = 0
    /\ pass1 = <<>>
    /\ summary = NoSummary

RECURSIVE Flatten(_)
Flatten(seqs) == IF seqs = <<>> THEN <<>> ELSE Head(seqs) \o Flatten(Tail(seqs))

\* The locals of a function that has returned.
ForgetUi == tenants' = <<>> /\ tenant' = NoItem /\ contracts' = <<>> /\ contract' = NoItem
ForgetReport ==
    /\ todo' = <<>> /\ stats' = NoReport /\ written' = <<>> /\ skipped' = <<>>
    /\ sections' = 0 /\ pass1' = <<>> /\ summary' = NoSummary
ForgetAnalyzer == op' = "none" /\ req' = <<>> /\ ret' = NoResult

\* main: one prompt of the main menu.
MainMenu ==
    /\ pc = "menu"
    /\ \E line \in Lines :
        /\ input' = line
        /\ IF IsInt(line) /\ IntOf(line) \in {1, 2, 3}
           THEN /\ mode' = IntOf(line)
                /\ pc' = IF IntOf(line) = 3 THEN "exit" ELSE "fabric"
           ELSE /\ pc' = "menu"
                /\ UNCHANGED mode
    /\ UNCHANGED <<session, analyzerVars, uiVars, reportVars>>

\* choose_fabric: one prompt.
ChooseFabric ==
    /\ pc = "fabric"
    /\ \E line \in Lines :
        /\ input' = line
        /\ pc' = IF IsInt(line) /\ 1 <= IntOf(line) /\ IntOf(line) <= Len(FABRICS)
                 THEN "login" ELSE "fabric"
    /\ UNCHANGED <<session, mode, analyzerVars, uiVars, reportVars>>

\* main going on whatever login returned.
AfterLogin_Ignored(ok, m) == IF m = 1 THEN "report" ELSE "irun"

\* main: where control goes after session.login().
AfterLogin(ok, m) == IF ~ok THEN "menu" ELSE IF m = 1 THEN "report" ELSE "irun"

\* main: a new ACISession and its login.
Login ==
    /\ pc = "login"
    /\ \E outcome \in LoginOutcomes :
        LET l == SessionLogin(outcome)
        IN  /\ session' = [posts |-> l.posts, cookies |-> l.ok]
            /\ pc' = AfterLogin(l.ok, mode)
    /\ ForgetAnalyzer
    /\ UNCHANGED <<mode, input, uiVars, reportVars>>

\* generate_complete_report, up to the loop over the tenants.
ReportStart ==
    /\ pc = "report"
    /\ \E call \in MainTenantCalls :
        LET r == GetTenants(call.t, call.vrf)
        IN  /\ op' = "get_tenants" /\ req' = call /\ ret' = r
            /\ tenants' = r.value
            /\ todo' = r.value
    /\ stats' = NoReport
    /\ pc' = "report_tenants"
    /\ UNCHANGED <<session, mode, input, tenant, contracts, contract,
                   written, skipped, sections, pass1, summary>>

\* generate_complete_report counting the tenant, not its contracts.
AddContracts_PerTenant(total, found) == total + 1

\* generate_complete_report: stats["contracts"] += len(contracts)
AddContracts(total, found) == total + Len(found)

\* generate_complete_report: one tenant of the loop, up to the loop of
\* _write_tenant_section.
ReportTenant ==
    /\ pc = "report_tenants"
    /\ todo # <<>>
    /\ \E cOut \in MainContractOutcomes(Head(todo).dn) :
        LET r == GetContracts(Head(todo).dn, cOut)
        IN  /\ op' = "get_contracts"
            /\ req' = [dn |-> Head(todo).dn, c |-> cOut]
            /\ ret' = r
            /\ pass1' = Append(pass1, r.value)
            /\ IF r.value = <<>>
               THEN /\ pc' = "report_tenants"
                    /\ UNCHANGED <<tenant, contracts, stats, sections>>
               ELSE /\ stats' = [stats EXCEPT !.contracts = AddContracts(@, r.value)]
                    /\ tenant' = [name |-> Head(todo).name, dn |-> Head(todo).dn]
                    /\ contracts' = SortedByName(r.value)
                    /\ sections' = sections + 1
                    /\ pc' = "report_section"
    /\ todo' = Tail(todo)
    /\ UNCHANGED <<session, mode, input, tenants, contract, written, skipped, summary>>

\* _write_tenant_section writing every contract.
OmitContract_Never(providers, consumers) == FALSE

\* _write_tenant_section: if not providers and not consumers: continue
OmitContract(providers, consumers) == providers = <<>> /\ consumers = <<>>

\* _write_tenant_section: one contract of the loop.  An exception of
\* get_contract_relationships leaves the report and main.
ReportContract ==
    /\ pc = "report_section"
    /\ contracts # <<>>
    /\ \E call \in MainRelationCalls :
        LET c == Head(contracts)
            r == GetContractRelationships(c.dn, call.rel, call.oracle)
            entry == [tenant |-> tenant.name, contract |-> c.name,
                      providers |-> NamesOf(r.value.providers),
                      consumers |-> NamesOf(r.value.consumers)]
        IN  /\ op' = "get_contract_relationships"
            /\ req' = [dn |-> c.dn, rel |-> call.rel, oracle |-> call.oracle]
            /\ ret' = r
            /\ IF r.raised
               THEN /\ pc' = "crashed"
                    /\ UNCHANGED <<contracts, stats, written, skipped>>
               ELSE /\ IF OmitContract(r.value.providers, r.value.consumers)
                       THEN /\ skipped' = Append(skipped, entry)
                            /\ UNCHANGED <<stats, written>>
                       ELSE /\ stats' = [stats EXCEPT
                                            !.providers = @ + Len(r.value.providers),
                                            !.consumers = @ + Len(r.value.consumers)]
                            /\ written' = Append(written, entry)
                            /\ UNCHANGED skipped
                    /\ contracts' = Tail(contracts)
                    /\ pc' = IF Tail(contracts) = <<>> THEN "report_tenants"
                             ELSE "report_section"
    /\ UNCHANGED <<session, mode, input, tenants, tenant, contract,
                   todo, sections, pass1, summary>>

\* _write_summary counting every tenant of the list.
TenantsAnalysed_All(lists) == Len(lists)

\* _write_summary: len([t for t in tenants if self.analyzer.get_contracts(t['dn'])]),
\* lists being what get_contracts returned for each tenant.
TenantsAnalysed(lists) == Cardinality({i \in 1..Len(lists) : lists[i] # <<>>})

\* _write_summary: every tenant's contracts are fetched again.
ReportSummary ==
    /\ pc = "report_tenants"
    /\ todo = <<>>
    /\ \E second \in FunsOver(1..Len(tenants),
                              [i \in 1..Len(tenants) |->
                                  MainContractOutcomes(tenants[i].dn)]) :
        LET again == [i \in 1..Len(tenants) |-> GetContracts(tenants[i].dn, second[i])]
        IN  /\ summary' = [written |-> TRUE,
                           tenants |-> TenantsAnalysed(
                                           [i \in 1..Len(tenants) |-> again[i].value]),
                           contracts |-> stats.contracts,
                           providers |-> stats.providers,
                           consumers |-> stats.consumers]
            /\ op' = "get_contracts"
            /\ req' = [second |-> second]
            /\ ret' = [raised |-> FALSE,
                       value |-> [i \in 1..Len(tenants) |-> again[i].value],
                       wire |-> Flatten([i \in 1..Len(tenants) |-> again[i].wire]),
                       calls |-> Len(tenants)]
    /\ pc' = "report_done"
    /\ UNCHANGED <<session, mode, input, uiVars,
                   todo, stats, written, skipped, sections, pass1>>

\* generate_complete_report returns to the loop of main.
ReportReturn ==
    /\ pc = "report_done"
    /\ pc' = "menu"
    /\ ForgetAnalyzer /\ ForgetUi /\ ForgetReport
    /\ UNCHANGED <<session, mode, input>>

\* InteractiveMode.run: the top of the loop.
InteractiveTenants ==
    /\ pc = "irun"
    /\ \E call \in MainTenantCalls :
        LET r == GetTenants(call.t, call.vrf)
        IN  /\ op' = "get_tenants" /\ req' = call /\ ret' = r
            /\ IF r.value = <<>>
               THEN pc' = "menu" /\ ForgetUi
               ELSE /\ pc' = "select_tenant"
                    /\ tenants' = r.value
                    /\ tenant' = NoItem /\ contracts' = <<>> /\ contract' = NoItem
    /\ UNCHANGED <<session, mode, input, reportVars>>

\* _select_tenant: one prompt.
SelectTenant ==
    /\ pc = "select_tenant"
    /\ \E line \in Lines :
        /\ input' = line
        /\ IF IsInt(line) /\ 1 <= IntOf(line) /\ IntOf(line) <= Len(tenants)
           THEN /\ tenant' = [name |-> tenants[IntOf(line)].name,
                              dn |-> tenants[IntOf(line)].dn]
                /\ pc' = "tenant_contracts"
           ELSE /\ pc' = "select_tenant"
                /\ UNCHANGED tenant
    /\ UNCHANGED <<session, mode, analyzerVars, tenants, contracts, contract, reportVars>>

\* InteractiveMode.run: the contracts of the tenant selected.
InteractiveContracts ==
    /\ pc = "tenant_contracts"
    /\ \E cOut \in MainContractOutcomes(tenant.dn) :
        LET r == GetContracts(tenant.dn, cOut)
        IN  /\ op' = "get_contracts"
            /\ req' = [dn |-> tenant.dn, c |-> cOut]
            /\ ret' = r
            /\ contracts' = r.value
            /\ pc' = IF r.value = <<>> THEN "no_contracts" ELSE "select_contract"
    /\ UNCHANGED <<session, mode, input, tenants, tenant, contract, reportVars>>

\* run ending the program on choice 3.
AfterNoContracts_Quit(choice) ==
    IF choice = 1 THEN "irun" ELSE IF choice = 2 THEN "menu" ELSE "exit"

\* run: continue on choice 1, break on choice 2, return otherwise; after a
\* break or a return, main is back at the head of its loop.
AfterNoContracts(choice) == IF choice = 1 THEN "irun" ELSE "menu"

\* _handle_no_contracts: one prompt, and what run does with the choice.
HandleNoContracts ==
    /\ pc = "no_contracts"
    /\ \E line \in Lines :
        /\ input' = line
        /\ IF IsInt(line) /\ IntOf(line) \in {1, 2, 3}
           THEN IF IntOf(line) = 1
                THEN pc' = AfterNoContracts(1) /\ UNCHANGED <<analyzerVars, uiVars>>
                ELSE pc' = AfterNoContracts(IntOf(line)) /\ ForgetAnalyzer /\ ForgetUi
           ELSE pc' = "no_contracts" /\ UNCHANGED <<analyzerVars, uiVars>>
    /\ UNCHANGED <<session, mode, reportVars>>

\* _select_contract: one prompt.
SelectContract ==
    /\ pc = "select_contract"
    /\ \E line \in Lines :
        LET contracts_sorted == SortedByName(contracts)
        IN  /\ input' = line
            /\ IF IsInt(line) /\ 1 <= IntOf(line) /\ IntOf(line) <= Len(contracts)
               THEN /\ contract' = contracts_sorted[IntOf(line)]
                    /\ pc' = "display"
               ELSE /\ pc' = "select_contract"
                    /\ UNCHANGED contract
    /\ UNCHANGED <<session, mode, analyzerVars, tenants, tenant, contracts, reportVars>>

\* _display_contract.  An exception of get_contract_relationships leaves the
\* session and main.
DisplayContract ==
    /\ pc = "display"
    /\ \E call \in MainRelationCalls :
        LET r == GetContractRelationships(contract.dn, call.rel, call.oracle)
        IN  /\ op' = "get_contract_relationships"
            /\ req' = [dn |-> contract.dn, rel |-> call.rel, oracle |-> call.oracle]
            /\ ret' = r
            /\ pc' = IF r.raised THEN "crashed" ELSE "ask_continue"
    /\ UNCHANGED <<session, mode, input, uiVars, reportVars>>

\* _ask_continue: one prompt, and what run does with the answer.
AskContinue ==
    /\ pc = "ask_continue"
    /\ \E line \in Lines :
        /\ input' = line
        /\ IF line \in {"o", "oui", "y", "yes"}
           THEN pc' = "irun" /\ UNCHANGED <<analyzerVars, uiVars>>
           ELSE IF line \in {"n", "non", "no"}
           THEN pc' = "menu" /\ ForgetAnalyzer /\ ForgetUi
           ELSE pc' = "ask_continue" /\ UNCHANGED <<analyzerVars, uiVars>>
    /\ UNCHANGED <<session, mode, reportVars>>

Next ==
    \/ MainMenu
    \/ ChooseFabric
    \/ Login
    \/ ReportStart
    \/ ReportTenant
    \/ ReportContract
    \/ ReportSummary
    \/ ReportReturn
    \/ InteractiveTenants
    \/ SelectTenant
    \/ InteractiveContracts
    \/ HandleNoContracts
    \/ SelectContract
    \/ DisplayContract
    \/ AskContinue

Spec == Init /\ [][Next]_vars

(***************************************************************************)
(* Properties of the program (checked under Spec).                         *)
(***************************************************************************)
\* C8 as stated: after a login that fails (error status or exception) control
\* is at the fabric-selection menu.
C8_FailedLoginBackToFabricMenu ==
    [][(pc = "login" /\ ~session'.cookies) => pc' = "fabric"]_vars

\* C8 amended: a login that fails (error status or exception) does not end the
\* program: control is back at the main menu (the mode prompt, which precedes
\* the fabric selection), and no Analyzer operation runs on the failed session.
C8_FailedLoginBackToMainMenu ==
    [][/\ (pc = "login" /\ ~session'.cookies) => (pc' = "menu" /\ op' = "none")
       /\ ~session'.cookies =>
             /\ op' = "none" /\ ret' = NoResult
             /\ pc' \in {"menu", "fabric", "login", "exit"}]_vars

\* C8's case: the login has failed and control is at the main menu.
C8_Witness == pc = "menu" /\ session.posts = 1 /\ ~session.cookies

\* C9: in one session the credentials are posted exactly once, by the login
\* and before any fetch; no other step posts them; every call of
\* ACISession.get puts exactly one request on the wire, failed or not; and
\* after a failed contract fetch the report goes on with the next tenant as
\* after an empty result.
C9_OnePostNoRetry ==
    [][/\ session' # session => pc = "login"
       /\ pc = "login" => (session'.posts = 1 /\ op' = "none" /\ ret'.wire = <<>>)
       /\ op' # "none" => (session'.posts = 1 /\ session'.cookies)
       /\ Len(ret'.wire) = ret'.calls
       /\ (pc = "report_tenants" /\ todo # <<>> /\ IsNoData(req'.c)) =>
             /\ pc' = "report_tenants"
             /\ todo' = Tail(todo)
             /\ stats' = stats /\ written' = written]_vars

\* C9's case: the contract fetch of the first of two tenants failed with an
\* auth-class status, and the report is about to fetch the second tenant's.
C9_Witness ==
    /\ pc = "report_tenants"
    /\ op = "get_contracts"
    /\ req.c = Failed(403)
    /\ ret.wire = <<Url(TenantDn("Prod"), "vzBrCP")>>
    /\ session.posts = 1
    /\ Len(todo) = 1

RECURSIVE SumOf(_, _)
SumOf(entries, role) ==
    IF entries = <<>> THEN 0
    ELSE Len(Head(entries)[role]) + SumOf(Tail(entries), role)

\* C10: in the batch report a contract is left out of the body exactly when
\* its provider list and its consumer list are both empty, and the provider
\* and consumer totals (running, and in the summary) are the sums of the list
\* lengths over the contracts written to the body.
C10_TotalsOverWritten ==
    /\ \A i \in 1..Len(written) :
          written[i].providers # <<>> \/ written[i].consumers # <<>>
    /\ \A i \in 1..Len(skipped) :
          skipped[i].providers = <<>> /\ skipped[i].consumers = <<>>
    /\ stats.providers = SumOf(written, "providers")
    /\ stats.consumers = SumOf(written, "consumers")
    /\ summary.written =>
          /\ summary.providers = SumOf(written, "providers")
          /\ summary.consumers = SumOf(written, "consumers")

\* C10's case: a summary after a body with two contracts and one left out.
C10_Witness ==
    /\ summary.written
    /\ skipped # <<>>
    /\ Len(written) >= 2
    /\ summary.providers > 0 /\ summary.consumers > 0

\* C11: the "tenants analysed" figure of the summary comes from a second fetch
\* of the contracts of every tenant of the list, in order, after the loop: it
\* is the number of tenants whose second fetch brings at least one contract,
\* whatever became of their contracts in the body; when every second fetch
\* returns what the first returned, it is the number of tenant sections
\* written.
C11_TenantsAnalysedSecondPass ==
    summary.written =>
        /\ Len(pass1) = Len(tenants)
        /\ ret.wire = [i \in 1..Len(tenants) |-> Url(tenants[i].dn, "vzBrCP")]
        /\ summary.tenants =
              Cardinality({i \in 1..Len(tenants) : ~IsNoData(req.second[i])})
        /\ (\A i \in 1..Len(tenants) : ret.value[i] = pass1[i]) =>
              summary.tenants = sections

\* C11's case: of two tenants, the first has a section whose every contract
\* resolved to nothing and is counted; the second had no contracts in the loop
\* and has some in the second fetch, so that the figure and the number of
\* sections disagree.
C11_Witness ==
    /\ summary.written
    /\ Len(tenants) = 2
    /\ sections = 1
    /\ written = <<>> /\ skipped # <<>>
    /\ pass1[1] # <<>> /\ pass1[2] = <<>>
    /\ ret.value[2] # <<>>
    /\ summary.tenants = 2

\* The line that is the decimal numeral of n.
Numeral == <<"1", "2", "3", "4">>

\* The line typed is a number of 1..n.
Picks(line, n) == \E k \in 1..n : k <= Len(Numeral) /\ line = Numeral[k]
Picked(line) == CHOOSE k \in 1..Len(Numeral) : line = Numeral[k]

\* C12: a prompt of the tenant or contract selection accepts the line typed
\* only when it is a number of 1..N, N being the number of items displayed, and
\* then selects the item at that position of the displayed list (the tenants in
\* name order, the contracts in name order); on any other line it prompts
\* again, with no fetch and nothing selected, however often that happens.
C12_SelectionByPosition ==
    [][/\ pc = "select_tenant" =>
             /\ analyzerVars' = analyzerVars /\ tenants' = tenants
             /\ \A i, j \in 1..Len(tenants) :
                   i < j => ~StrLess(tenants[j].name, tenants[i].name)
             /\ IF Picks(input', Len(tenants))
                THEN /\ pc' = "tenant_contracts"
                     /\ tenant'.name = tenants[Picked(input')].name
                     /\ tenant'.dn = tenants[Picked(input')].dn
                ELSE /\ pc' = "select_tenant"
                     /\ uiVars' = uiVars
       /\ pc = "select_contract" =>
             /\ analyzerVars' = analyzerVars /\ contracts' = contracts
             /\ tenant' = tenant
             /\ IF Picks(input', Len(contracts))
                THEN /\ pc' = "display"
                     /\ \E i \in 1..Len(contracts) : contract' = contracts[i]
                     /\ Cardinality({i \in 1..Len(contracts) :
                                       StrLess(contracts[i].name, contract'.name)})
                           = Picked(input') - 1
                ELSE /\ pc' = "select_contract"
                     /\ uiVars' = uiVars]_vars

\* C12's case: the controller listed db before Web, and line 1 selected Web,
\* the first contract of the list displayed.
C12_Witness ==
    /\ pc = "display"
    /\ NamesOf(contracts) = <<"db", "Web">>
    /\ input = "1"
    /\ contract.name = "Web"

\* C13: at the prompt shown when the selected tenant has no contracts (an empty
\* or a failed contract fetch), option 1 goes back to the head of the loop of
\* run, whose next step fetches the tenant list again; options 2 and 3 both end
\* run and leave the program at the main menu, still running, with the session
\* as it was; and no step taken at the prompt selects a contract or fetches
\* relationships.
C13_NoContractOptions ==
    [][/\ pc = "no_contracts" =>
             /\ contracts = <<>> /\ op = "get_contracts" /\ ret.value = <<>>
             /\ pc' \in {"no_contracts", "irun", "menu"}
             /\ op' # "get_contract_relationships"
             /\ contract' \in {contract, NoItem}
             /\ input' = "1" => pc' = "irun" /\ tenants' = tenants
             /\ input' \in {"2", "3"} => pc' = "menu" /\ session' = session
             /\ pc' = "no_contracts" <=> input' \notin {"1", "2", "3"}
       /\ pc = "irun" => op' = "get_tenants" /\ pc' \in {"menu", "select_tenant"}]_vars

\* C13's case: option 3 was typed at the no-contract prompt of a logged-in
\* interactive session, and the program is at the main menu.
C13_Witness ==
    /\ pc = "menu"
    /\ mode = 2
    /\ input = "3"
    /\ session.cookies
    /\ op = "none"

RECURSIVE TotalLen(_)
TotalLen(lists) ==
    IF lists = <<>> THEN 0 ELSE Len(Head(lists)) + TotalLen(Tail(lists))

\* C14: the contract total of the summary is the number of contracts the first
\* fetch of the loop returned, summed over the tenants of the list (none of
\* them excluded); it counts the contracts left out of the body as well as
\* those written, so it is never below the number written.
C14_ContractTotalFirstPass ==
    /\ \A i \in 1..Len(tenants) : tenants[i].name \notin EXCLUDED_TENANTS
    /\ pc \in {"report_tenants", "report_done"} =>
          /\ stats.contracts = TotalLen(pass1)
          /\ stats.contracts = Len(written) + Len(skipped)
    /\ summary.written =>
          /\ Len(pass1) = Len(tenants)
          /\ summary.contracts = TotalLen(pass1)
          /\ summary.contracts = Len(written) + Len(skipped)
          /\ summary.contracts >= Len(written)

\* C14's case: a summary whose total (2) exceeds the one contract of the body,
\* the other contract of the tenant having no provider and no consumer.
C14_Witness ==
    /\ summary.written
    /\ Len(written) = 1
    /\ Len(skipped) = 1
    /\ written[1].tenant = skipped[1].tenant
    /\ summary.contracts = 2

====
